---- MODULE Spec2Model ----
\* Model of CohereEmbeddings (langchain/src/embeddings/cohere.ts): the
\* constructor's credential resolution, the lazily initialised client handle,
\* and the two async operations embedDocuments / embedQuery, cut into steps at
\* their await points.
EXTENDS Integers, Sequences, FiniteSets, TLC

\* ---------------------------------------------------------------- bounds
MaxLen == 5          \* longest texts array passed to embedDocuments (one caller)
MaxLenConc == 2      \* longest texts array when two invocations overlap
MaxBatch == 3        \* largest explicit fields.batchSize

\* ------------------------------------------------------------- constants
DefaultBatchSize == 48
DefaultModelName == "small"

Texts == {"a", "b"}
Vectors == {<<1, 0>>, <<0, 1>>}
\* A deterministic provider maps each text to one vector.
Providers == [Texts -> Vectors]
\* JS `undefined` read from an array past its end; no provider returns it.
Undefined == <<>>
NoClient == "undefined"
Procs == {1, 2}

SeqsUpTo(S, n) == UNION {[1..k -> S] : k \in 0..n}

Min(a, b) == IF a < b THEN a ELSE b

\* ------------------------------------------------------- constructor inputs
\* `fields` is a record carrying only the options the caller passed; the
\* empty record stands for both `undefined` and `{}`.
OptRecs(key, vals) == {<<>>} \cup {[k \in {key} |-> v] : v \in vals}
Merge(r, s) == [k \in DOMAIN r \cup DOMAIN s |-> IF k \in DOMAIN r THEN r[k] ELSE s[k]]
FieldsSet ==
  {Merge(a, Merge(b, m)) : a \in OptRecs("apiKey", {"", "k1"}),
                          b \in OptRecs("batchSize", 1..MaxBatch),
                          m \in OptRecs("modelName", {"large"})}
EnvSet == OptRecs("COHERE_API_KEY", {"", "k2"})

Truthy(k) == k # NoClient /\ k # ""

\* fields?.apiKey || (typeof process !== "undefined" ? process.env.COHERE_API_KEY : undefined)
ResolveApiKeyEnvFirst(fields, env, hasProcess) ==
  IF hasProcess /\ "COHERE_API_KEY" \in DOMAIN env /\ Truthy(env.COHERE_API_KEY)
  THEN env.COHERE_API_KEY
  ELSE IF "apiKey" \in DOMAIN fields THEN fields.apiKey ELSE NoClient
ResolveApiKey(fields, env, hasProcess) ==
  IF "apiKey" \in DOMAIN fields /\ Truthy(fields.apiKey)
  THEN fields.apiKey
  ELSE IF hasProcess /\ "COHERE_API_KEY" \in DOMAIN env
       THEN env.COHERE_API_KEY
       ELSE NoClient

\* --------------------------------------------------------- pure helpers
\* chunk(items, size): consecutive slices of at most `size` items, in order.
chunkArray(arr, chunkSize) ==
  [k \in 1..((Len(arr) + chunkSize - 1) \div chunkSize) |->
     SubSeq(arr, (k - 1) * chunkSize + 1, Min(k * chunkSize, Len(arr)))]

\* const subPrompts = chunkArray(texts, this.batchSize)
SubPromptsNoChunk(txts, size) == <<txts>>
SubPrompts(txts, size) == chunkArray(txts, size)

\* arr[j] with JS semantics (0-based j), undefined past the end
At(arr, j) == IF j + 1 \in DOMAIN arr THEN arr[j + 1] ELSE Undefined

\* for (j = 0; j < input.length; j += 1) embeddings.push(body.embeddings[j])
PushEmbeddingsAll(embs, body, input) == embs \o body
PushEmbeddings(embs, body, input) ==
  embs \o [j \in 1..Len(input) |-> At(body, j - 1)]

\* request of the i-th loop iteration of embedDocuments: { model, texts }
DocsRequest(model, txts, input) == [model |-> model, texts |-> txts]

\* request of embedQuery: { model, texts: [text] }
QueryRequest(model, t) == [model |-> model, texts |-> <<t>>]

\* return body.embeddings[0]
QueryResultOffByOne(body) == At(body, 1)
QueryResult(body) == At(body, 0)

VARIABLES
  ctor,        \* "none" | "ok" | "thrown": outcome of `new CohereEmbeddings(fields)`
  fields, env, hasProcess,   \* the constructor's inputs
  apiKey, modelName, batchSize,   \* instance fields
  client,      \* this.client: NoClient or "cohere"
  initCount,   \* number of this.client.init(apiKey) invocations
  provider,    \* the remote endpoint's (deterministic) text -> vector map
  pc, kind, ret,      \* per invocation: position, operation, continuation of maybeInitClient
  texts, text,        \* per invocation: argument of embedDocuments / embedQuery
  subPrompts, i, embeddings, request,   \* per invocation: locals
  status, result, error,   \* per invocation: promise state, value, error
  sent,        \* per invocation: requests handed to caller.call, in order
  inflight     \* remote calls issued and not yet settled: [inv, seq]

ctorVars == <<ctor, fields, env, hasProcess, apiKey, modelName, batchSize, provider>>
locals == <<kind, ret, texts, text, subPrompts, i, embeddings, request>>
outcome == <<status, result, error>>
vars == <<ctor, fields, env, hasProcess, apiKey, modelName, batchSize, client,
          initCount, provider, pc, kind, ret, texts, text, subPrompts, i,
          embeddings, request, status, result, error, sent, inflight>>

NoRequest == [model |-> "", texts |-> <<>>]

InitProcs ==
  /\ pc = [p \in Procs |-> "idle"]
  /\ kind = [p \in Procs |-> "none"]
  /\ ret = [p \in Procs |-> "idle"]
  /\ texts = [p \in Procs |-> <<>>]
  /\ text = [p \in Procs |-> ""]
  /\ subPrompts = [p \in Procs |-> <<>>]
  /\ i = [p \in Procs |-> 0]
  /\ embeddings = [p \in Procs |-> <<>>]
  /\ request = [p \in Procs |-> NoRequest]
  /\ status = [p \in Procs |-> "none"]
  /\ result = [p \in Procs |-> <<>>]
  /\ error = [p \in Procs |-> ""]
  /\ sent = [p \in Procs |-> <<>>]
  /\ inflight = {}

\* Before `new CohereEmbeddings(fields)` has run.
Init ==
  /\ ctor = "none"
  /\ fields = <<>> /\ env = <<>> /\ hasProcess = TRUE
  /\ apiKey = NoClient
  /\ modelName = DefaultModelName
  /\ batchSize = DefaultBatchSize
  /\ client = NoClient
  /\ initCount = 0
  /\ provider \in Providers
  /\ InitProcs

\* constructor(fields?)
Construct ==
  /\ ctor = "none"
  /\ \E f \in FieldsSet, e \in EnvSet, hp \in BOOLEAN :
       LET key == ResolveApiKey(f, e, hp) IN
       /\ fields' = f /\ env' = e /\ hasProcess' = hp
       /\ IF ~Truthy(key)
          THEN /\ ctor' = "thrown"
               /\ UNCHANGED <<apiKey, modelName, batchSize>>
          ELSE /\ ctor' = "ok"
               /\ modelName' = IF "modelName" \in DOMAIN f THEN f.modelName ELSE modelName
               /\ batchSize' = IF "batchSize" \in DOMAIN f THEN f.batchSize ELSE batchSize
               /\ apiKey' = key
  /\ UNCHANGED <<client, initCount, provider, pc, locals, outcome, sent, inflight>>

\* await this.maybeInitClient(): the synchronous part up to its first await.
\* With the client unset it suspends on the dynamic import; otherwise the
\* caller resumes at `cont` on the next tick.
MaybeInitClient(p, cont) ==
  /\ ret' = [ret EXCEPT ![p] = cont]
  /\ pc' = [pc EXCEPT ![p] = IF client = NoClient THEN "import" ELSE cont]

\* maybeInitClient resumes after `await CohereEmbeddings.imports()` resolved:
\* this.client = cohere; this.client.init(this.apiKey)
ImportsResolve(p) ==
  /\ pc[p] = "import"
  /\ client' = "cohere"
  /\ initCount' = initCount + 1
  /\ pc' = [pc EXCEPT ![p] = ret[p]]
  /\ UNCHANGED <<ctorVars, locals, outcome, sent, inflight>>

\* imports() throws "Please install cohere-ai ..."; the invocation rejects.
ImportsReject(p) ==
  /\ pc[p] = "import"
  /\ pc' = [pc EXCEPT ![p] = "done"]
  /\ status' = [status EXCEPT ![p] = "rejected"]
  /\ error' = [error EXCEPT ![p] = "DependencyMissing"]
  /\ UNCHANGED <<ctorVars, client, initCount, locals, result, sent, inflight>>

\* embedDocuments(texts), up to its first await
embedDocuments(p, maxLen) ==
  /\ ctor = "ok" /\ pc[p] = "idle"
  /\ \E ts \in SeqsUpTo(Texts, maxLen) :
       /\ texts' = [texts EXCEPT ![p] = ts]
       /\ kind' = [kind EXCEPT ![p] = "docs"]
  /\ status' = [status EXCEPT ![p] = "pending"]
  /\ MaybeInitClient(p, "docs_chunk")
  /\ UNCHANGED <<ctorVars, client, initCount, text, subPrompts, i, embeddings,
                 request, result, error, sent, inflight>>

\* embedQuery(text), up to its first await
embedQuery(p) ==
  /\ ctor = "ok" /\ pc[p] = "idle"
  /\ \E t \in Texts : text' = [text EXCEPT ![p] = t]
  /\ kind' = [kind EXCEPT ![p] = "query"]
  /\ status' = [status EXCEPT ![p] = "pending"]
  /\ MaybeInitClient(p, "query_top")
  /\ UNCHANGED <<ctorVars, client, initCount, texts, subPrompts, i, embeddings,
                 request, result, error, sent, inflight>>

\* Loop head of embedDocuments with i = n and the embeddings collected so far:
\* either builds the next request and enters embeddingWithRetry (whose first
\* statement is await this.maybeInitClient()), or returns the embeddings.
LoopHead(p, n, sp, embs) ==
  /\ i' = [i EXCEPT ![p] = n]
  /\ embeddings' = [embeddings EXCEPT ![p] = embs]
  /\ IF n < Len(sp)
     THEN /\ request' = [request EXCEPT ![p] = DocsRequest(modelName, texts[p], sp[n + 1])]
          /\ MaybeInitClient(p, "call")
          /\ UNCHANGED outcome
     ELSE /\ pc' = [pc EXCEPT ![p] = "done"]
          /\ status' = [status EXCEPT ![p] = "resolved"]
          /\ result' = [result EXCEPT ![p] = embs]
          /\ UNCHANGED <<request, ret, error>>

\* Variant that starts every batch's call at once instead of awaiting each.
DocsChunkParallel(p) ==
  /\ pc[p] = "docs_chunk"
  /\ LET sp == SubPrompts(texts[p], batchSize) IN
       /\ subPrompts' = [subPrompts EXCEPT ![p] = sp]
       /\ sent' = [sent EXCEPT ![p] = [k \in 1..Len(sp) |-> DocsRequest(modelName, texts[p], sp[k])]]
       /\ inflight' = inflight \cup {[inv |-> p, seq |-> k] : k \in 1..Len(sp)}
       /\ IF Len(sp) = 0
          THEN LoopHead(p, 0, sp, <<>>)
          ELSE /\ pc' = [pc EXCEPT ![p] = "await_call"]
               /\ UNCHANGED <<i, embeddings, request, ret, outcome>>
  /\ UNCHANGED <<ctorVars, client, initCount, kind, texts, text>>

\* embedDocuments after its first await: chunk, then the first loop iteration
DocsChunk(p) ==
  /\ pc[p] = "docs_chunk"
  /\ LET sp == SubPrompts(texts[p], batchSize) IN
       /\ subPrompts' = [subPrompts EXCEPT ![p] = sp]
       /\ LoopHead(p, 0, sp, <<>>)
  /\ UNCHANGED <<ctorVars, client, initCount, kind, texts, text, sent, inflight>>

\* embedQuery after its first await: build the request, enter embeddingWithRetry
QueryTop(p) ==
  /\ pc[p] = "query_top"
  /\ request' = [request EXCEPT ![p] = QueryRequest(modelName, text[p])]
  /\ MaybeInitClient(p, "call")
  /\ UNCHANGED <<ctorVars, client, initCount, kind, texts, text, subPrompts, i,
                 embeddings, outcome, sent, inflight>>

\* embeddingWithRetry after its await: this.caller.call(client.embed, request)
CallerCall(p) ==
  /\ pc[p] = "call"
  /\ sent' = [sent EXCEPT ![p] = Append(@, request[p])]
  /\ inflight' = inflight \cup {[inv |-> p, seq |-> Len(sent[p]) + 1]}
  /\ pc' = [pc EXCEPT ![p] = "await_call"]
  /\ UNCHANGED <<ctorVars, client, initCount, locals, outcome>>

\* The endpoint returns one embedding per text of the request it received.
Embed(req) == [j \in 1..Len(req.texts) |-> provider[req.texts[j]]]

\* The remote call resolves with { body: { embeddings } }.
EmbedResolve(p) ==
  /\ pc[p] = "await_call"
  /\ \E r \in inflight :
       /\ r.inv = p
       /\ inflight' = inflight \ {r}
       /\ LET body == Embed(sent[p][r.seq]) IN
          IF kind[p] = "docs"
          THEN LoopHead(p, i[p] + 1, subPrompts[p],
                        PushEmbeddings(embeddings[p], body, subPrompts[p][i[p] + 1]))
          ELSE /\ pc' = [pc EXCEPT ![p] = "done"]
               /\ status' = [status EXCEPT ![p] = "resolved"]
               /\ result' = [result EXCEPT ![p] = QueryResult(body)]
               /\ UNCHANGED <<i, embeddings, request, ret, error>>
  /\ UNCHANGED <<ctorVars, client, initCount, kind, texts, text, subPrompts, sent>>

\* Variant that catches the error and returns what was collected so far.
EmbedRejectPartial(p) ==
  /\ pc[p] = "await_call"
  /\ \E r \in inflight :
       /\ r.inv = p
       /\ inflight' = inflight \ {r}
  /\ pc' = [pc EXCEPT ![p] = "done"]
  /\ status' = [status EXCEPT ![p] = "resolved"]
  /\ result' = [result EXCEPT ![p] = embeddings[p]]
  /\ error' = [error EXCEPT ![p] = "ProviderCallError"]
  /\ UNCHANGED <<ctorVars, client, initCount, locals, sent>>

\* The retrying caller gave up: the awaited call throws, the invocation rejects.
EmbedReject(p) ==
  /\ pc[p] = "await_call"
  /\ \E r \in inflight :
       /\ r.inv = p
       /\ inflight' = inflight \ {r}
  /\ pc' = [pc EXCEPT ![p] = "done"]
  /\ status' = [status EXCEPT ![p] = "rejected"]
  /\ error' = [error EXCEPT ![p] = "ProviderCallError"]
  /\ UNCHANGED <<ctorVars, client, initCount, locals, result, sent>>

\* The caller has observed the settled promise; the invocation's frame is gone.
Return(p) ==
  /\ pc[p] = "done"
  /\ pc' = [pc EXCEPT ![p] = "idle"]
  /\ kind' = [kind EXCEPT ![p] = "none"]
  /\ ret' = [ret EXCEPT ![p] = "idle"]
  /\ texts' = [texts EXCEPT ![p] = <<>>]
  /\ text' = [text EXCEPT ![p] = ""]
  /\ subPrompts' = [subPrompts EXCEPT ![p] = <<>>]
  /\ i' = [i EXCEPT ![p] = 0]
  /\ embeddings' = [embeddings EXCEPT ![p] = <<>>]
  /\ request' = [request EXCEPT ![p] = NoRequest]
  /\ status' = [status EXCEPT ![p] = "none"]
  /\ result' = [result EXCEPT ![p] = <<>>]
  /\ error' = [error EXCEPT ![p] = ""]
  /\ sent' = [sent EXCEPT ![p] = <<>>]
  /\ UNCHANGED <<ctorVars, client, initCount, inflight>>

\* One caller: invocations on the instance follow one another.
Next ==
  \/ Construct
  \/ embedDocuments(1, MaxLen)
  \/ embedQuery(1)
  \/ ImportsResolve(1)
  \/ ImportsReject(1)
  \/ DocsChunk(1)
  \/ QueryTop(1)
  \/ CallerCall(1)
  \/ EmbedResolve(1)
  \/ EmbedReject(1)
  \/ Return(1)

Spec == Init /\ [][Next]_vars

\* Two callers on one constructed instance; their invocations interleave at
\* the await points.
InitConc ==
  /\ ctor = "ok"
  /\ fields \in {f \in FieldsSet : DOMAIN f = {"apiKey", "batchSize"} /\ f.apiKey = "k1"}
  /\ env = <<>> /\ hasProcess = TRUE
  /\ apiKey = fields.apiKey
  /\ modelName = DefaultModelName
  /\ batchSize = fields.batchSize
  /\ client = NoClient
  /\ initCount = 0
  /\ provider \in Providers
  /\ InitProcs

NextConc ==
  \E p \in Procs :
    \/ embedDocuments(p, MaxLenConc)
    \/ embedQuery(p)
    \/ ImportsResolve(p)
    \/ ImportsReject(p)
    \/ DocsChunk(p)
    \/ QueryTop(p)
    \/ CallerCall(p)
    \/ EmbedResolve(p)
    \/ EmbedReject(p)
    \/ Return(p)

SpecConc == InitConc /\ [][NextConc]_vars

\* ------------------------------------------------------------ properties
InFlightOf(p) == {r \in inflight : r.inv = p}
DocsResolved(p) == kind[p] = "docs" /\ status[p] = "resolved"
CeilDiv(n, b) == (n + b - 1) \div b

\* C1: the result of embedDocuments has at index k the embedding of texts[k],
\* for every k, also in the second and later batches.
C1_OrderPreserved ==
  \A p \in Procs : DocsResolved(p) =>
    \A k \in 1..Len(texts[p]) : At(result[p], k - 1) = provider[texts[p][k]]

\* C2: the k-th request issued by embedDocuments carries exactly the texts of
\* the k-th batch, and never more than batchSize texts.
C2_RequestCarriesBatch ==
  \A p \in Procs : kind[p] = "docs" =>
    \A k \in 1..Len(sent[p]) :
      /\ sent[p][k].texts = subPrompts[p][k]
      /\ Len(sent[p][k].texts) <= batchSize

\* C3: for a non-empty texts and successful calls, the result of
\* embedDocuments has exactly as many entries as texts.
C3_LengthPreserved ==
  \A p \in Procs : (DocsResolved(p) /\ texts[p] # <<>>) =>
    Len(result[p]) = Len(texts[p])
C3_Witness ==
  /\ DocsResolved(1) /\ Len(texts[1]) > 2 * batchSize
  /\ Len(result[1]) = Len(texts[1])

\* C4: embedDocuments issues one remote call per batch, ceil(n/b) in total
\* when all calls succeed.
C4_CallsPerBatch ==
  \A p \in Procs : DocsResolved(p) =>
    Len(sent[p]) = CeilDiv(Len(texts[p]), batchSize)
C4_Witness ==
  /\ DocsResolved(1) /\ Len(texts[1]) = 5 /\ batchSize = 2
  /\ Len(sent[1]) = 3

\* C5: embedDocuments of an empty array issues no remote call and returns
\* the empty array.
C5_EmptyInput ==
  \A p \in Procs : (kind[p] = "docs" /\ texts[p] = <<>>) =>
    /\ sent[p] = <<>>
    /\ InFlightOf(p) = {}
    /\ error[p] # "ProviderCallError"
    /\ (pc[p] = "done" /\ error[p] = "") => (status[p] = "resolved" /\ result[p] = <<>>)
C5_Witness ==
  /\ DocsResolved(1) /\ texts[1] = <<>> /\ pc[1] = "done"
  /\ result[1] = <<>> /\ client # NoClient

\* C6: embedQuery(t) returns the first entry of embedDocuments([t]), and
\* issues exactly one remote call, whose request carries [t].
C6_QueryMatchesDocs ==
  \A p \in Procs :
    (kind[p] = "query" /\ status[p] = "resolved") =>
      /\ sent[p] = <<[model |-> modelName, texts |-> <<text[p]>>]>>
      /\ \A q \in Procs :
           (DocsResolved(q) /\ texts[q] = <<text[p]>>) =>
             result[p] = At(result[q], 0)
C6_Witness ==
  \E p, q \in Procs :
    /\ kind[p] = "query" /\ status[p] = "resolved"
    /\ DocsResolved(q) /\ texts[q] = <<text[p]>>
    /\ result[p] = provider[text[p]]

\* C7: when the remote call of a batch fails, embedDocuments rejects with
\* that error, returns no list (not even of the batches that succeeded) and
\* issues no call for the later batches.
C7_NoPartialResult ==
  \A p \in Procs : error[p] = "ProviderCallError" =>
    /\ status[p] = "rejected"
    /\ pc[p] = "done"
    /\ result[p] = <<>>
    /\ InFlightOf(p) = {}
    /\ kind[p] = "docs" => Len(sent[p]) = i[p] + 1
C7_Witness ==
  /\ kind[1] = "docs" /\ status[1] = "rejected" /\ error[1] = "ProviderCallError"
  /\ embeddings[1] # <<>>
  /\ Len(sent[1]) < Len(subPrompts[1])

ExplicitKey == "apiKey" \in DOMAIN fields /\ fields.apiKey # ""
EnvKeySet == hasProcess /\ "COHERE_API_KEY" \in DOMAIN env
EnvKeyNonEmpty == EnvKeySet /\ env.COHERE_API_KEY # ""

\* C8 as stated: construction fails without an explicit apiKey and without
\* the environment variable, and succeeds with an explicit apiKey or with the
\* environment variable set, the explicit apiKey taking precedence.
C8_Original ==
  ctor # "none" =>
    /\ (~ExplicitKey /\ ~EnvKeySet) => ctor = "thrown"
    /\ (ExplicitKey \/ EnvKeySet) => ctor = "ok"
    /\ (ExplicitKey /\ ctor = "ok") => apiKey = fields.apiKey

\* C8 (amended): construction fails without a non-empty explicit apiKey and
\* without a non-empty COHERE_API_KEY, and succeeds otherwise; the instance
\* uses the explicit apiKey when it is non-empty, else the environment's.
C8_Credential ==
  ctor # "none" =>
    /\ (~ExplicitKey /\ ~EnvKeyNonEmpty) => (ctor = "thrown" /\ apiKey = NoClient)
    /\ ExplicitKey => (ctor = "ok" /\ apiKey = fields.apiKey)
    /\ (~ExplicitKey /\ EnvKeyNonEmpty) => (ctor = "ok" /\ apiKey = env.COHERE_API_KEY)
C8_Witness ==
  /\ ctor = "ok" /\ ExplicitKey /\ EnvKeyNonEmpty
  /\ apiKey = fields.apiKey /\ apiKey # env.COHERE_API_KEY

\* C9: on one instance init(apiKey) is invoked at most once, also when
\* invocations overlap, and exactly once when the client is set.
C9_InitOnce ==
  /\ initCount <= 1
  /\ client # NoClient => initCount = 1

\* C10: within one embedDocuments invocation at most one remote request is
\* in flight, and the request of batch k+1 is issued only after the call of
\* batch k has returned.
C10_Sequential ==
  \A p \in Procs :
    /\ Cardinality(InFlightOf(p)) <= 1
    /\ kind[p] = "docs" =>
         /\ Len(sent[p]) <= i[p] + 1
         /\ \A r \in InFlightOf(p) : r.seq = i[p] + 1 /\ r.seq = Len(sent[p])
C10_Witness ==
  \E p, q \in Procs :
    /\ p # q /\ kind[p] = "docs"
    /\ InFlightOf(p) = {[inv |-> p, seq |-> 2]}
    /\ InFlightOf(q) # {}

====
